---- MODULE Spec2Model ----
(***************************************************************************)
(* CoderLang orchestrator: OrchestratorSession.run_next_step, get_summary, *)
(* Orchestrator.run_llm / run_plan (src/orchestrator/coordinator.py) and   *)
(* run_orchestrator (src/orchestrator/router.py).                          *)
(*                                                                         *)
(* One session is driven from INIT to COMPLETE by run_plan inside          *)
(* run_orchestrator.  Every await of run_next_step is a step boundary: the *)
(* coordinating coroutine dispatches the gateway calls of a stage, each    *)
(* call finishes on the worker pool on its own, and the coroutine resumes  *)
(* when asyncio.gather has every result.                                   *)
(***************************************************************************)
EXTENDS Naturals, Sequences, FiniteSets, TLC

VARIABLES
    state,      \* OrchestratorSession.state: stage, plan, results, logs
    pc,         \* where the coroutine run_next_step is suspended
    tasks,      \* names of the calls handed to asyncio.gather, in dispatch order
    pool,       \* per call name: the call on the worker pool and its result
    route_res,  \* the router call's result (local of the INIT branch)
    issued,     \* per call name: number of gateway calls started
    finished,   \* per call name: number of gateway calls that returned
    failed,     \* call names whose generate_content raised
    exc,        \* exception that left run_next_step, "none" if none
    rpc,        \* position of run_orchestrator: entry, running, returned
    ret,        \* value returned by run_orchestrator
    ctx,        \* per agent: the context its last run_llm call was given
    first_done, \* the call of the gather in progress that returned first
    sandbox_runs, \* number of run_python_code calls made for the session
    llm_pc,     \* one run_llm call: start, configured, returned, raised
    llm_exc,    \* which library call of that run_llm call raised, "none" if none
    llm_text,   \* res.text of that call, a sequence of tokens
    llm_ret,    \* the dictionary that call returned
    saved,      \* the browser's localStorage entry: <<>> or <<to_json()>>
    restored,   \* stage of the serialized state the session was restored from
    reloads,    \* number of restores so far
    finalized,  \* number of assistant messages the workflow loop saved
    sum_pc,     \* a summary being built and shown: start, summarized, rendered
    sum_now,    \* time.time(), in ticks of 5 ms
    sum_start,  \* state["start_time"], in the same ticks
    sum_ret,    \* the summaries get_summary returned so far
    sum_score,  \* what render_message_content made of the evaluation text
    run_pc,     \* one run_python_code call: start, written, returned, raised
    run_code,   \* its code_string
    run_child,  \* how the child process of that call ended
    run_tmp,    \* whether the temporary script file of that call exists
    run_ret,    \* the dictionary that call returned
    mem_files,  \* short_term.json and long_term.json, per memory type
    mem_last,   \* per key and memory type: the value last passed to put
    mem_ret,    \* the last MemoryStore.get call and what it returned
    chat_files, \* chats/<id>.json per session id: <<>> or <<its content>>
    chat_sent,  \* per session id: the messages passed to save_message
    chat_now,   \* datetime.now(), in ticks
    chat_ret,   \* the last load_chat_history or list_chat_sessions result
    ag_pc,      \* one agent run call: start, returned
    ag_name,    \* the agent of that call
    ag_text,    \* the model's response.text of that call, a token sequence
    ag_ret,     \* what that call returned
    snap,       \* a to_json() result: <<>> or <<[prompt, state reference]>>
    snap_then,  \* the session state as it was when to_json() was called
    second,     \* the state reference of a session created from snap
    race_op,    \* what two UI sessions do at once: put or save_message
    race_args,  \* per UI session: the key and value (or message) it writes
    race_pc,    \* per UI session: start, loaded, opened, done, raised
    race_local, \* per UI session: the document _load returned to it
    race_file   \* the JSON file the two UI sessions share

vars == <<state, pc, tasks, pool, route_res, issued, finished, failed, exc, rpc, ret,
          ctx, first_done>>

\* the variables no step of run_orchestrator, run_plan or run_next_step writes
llmVars == <<llm_pc, llm_exc, llm_text, llm_ret>>
resumeVars == <<saved, restored, reloads, finalized>>
sumVars == <<sum_pc, sum_now, sum_start, sum_ret, sum_score>>
runVars == <<run_pc, run_code, run_child, run_tmp, run_ret>>
memVars == <<mem_files, mem_last, mem_ret>>
chatVars == <<chat_files, chat_sent, chat_now, chat_ret>>
agVars == <<ag_pc, ag_name, ag_text, ag_ret>>
aliasVars == <<snap, snap_then, second>>
raceVars == <<race_op, race_args, race_pc, race_local, race_file>>
toolVars == <<runVars, memVars, chatVars, agVars, aliasVars, raceVars>>
others == <<sandbox_runs, llmVars, resumeVars, sumVars, toolVars>>

----------------------------------------------------------------------------
(* Bounds of the model *)

\* longest agents_to_run list the router is made to return
MaxPlanLen == 4

\* longest model reply, in tokens, a run_llm call is made to clean
MaxTextLen == 3

----------------------------------------------------------------------------
(* Agent identifiers, SYSTEM_PROMPTS keys *)

Stage1Agents == {"ResearchAgent", "GeneralAgent", "CodeGenAgent", "ExplainAgent"}
Stage2Agents == {"SafetyAgent", "TestGenAgent", "DocstringAgent", "TranslateAgent"}
Agents == Stage1Agents \cup Stage2Agents \cup {"EvaluatorAgent"}
CallNames == Agents \cup {"Router"}

\* the order in which the router prompt lists the agents
AgentOrder ==
    << "ResearchAgent", "GeneralAgent", "CodeGenAgent", "SafetyAgent",
       "TestGenAgent", "DocstringAgent", "TranslateAgent", "ExplainAgent",
       "EvaluatorAgent" >>

----------------------------------------------------------------------------
(* AgentResult: the dictionaries run_llm returns.  The result of a        *)
(* successful call has no "error" key (NoKey); None is Python's None.     *)

NoKey == "<no key>"
None == "<None>"

OkResult(text) == [text |-> text, ok |-> TRUE, error |-> NoKey]
FailResult_NoMark(e) == [text |-> "", ok |-> TRUE, error |-> NoKey]
FailResult(e) == [text |-> "", ok |-> FALSE, error |-> e]

\* str(e) of the exception generate_content raised
GatewayError == "gateway error"

\* the non-empty text a successful call of `name` returns: one token per call
TextOf(name) == name

\* how _blocking_call can end: a text, an empty text (an empty reply, or
\* nothing left after the fences are stripped), an exception of generate_content
Outcomes == {"text", "empty", "error"}

\* lines 249-256: the dictionary _blocking_call returns
Reply(name, outcome) ==
    CASE outcome = "text" -> OkResult(TextOf(name))
      [] outcome = "empty" -> OkResult("")
      [] outcome = "error" -> FailResult(GatewayError)

Idle == [st |-> "none", res |-> OkResult("")]
Running == [st |-> "running", res |-> OkResult("")]
Done(res) == [st |-> "done", res |-> res]

----------------------------------------------------------------------------
(* JSON values.  A document is what json.loads makes of the router text:   *)
(* kind is the Python type of the value, keys the strings x for which      *)
(* `x in value` is true (keys of an object, elements of a list, substrings *)
(* of a string), atr the value under "agents_to_run" and intent the value  *)
(* under "intent_summary".  Kinds "empty" and "invalid" are texts that are *)
(* not JSON.                                                               *)

K_ATR == "agents_to_run"
K_PAR == "parallelizable"

NoVal == [k |-> "none", items |-> <<>>]
NullVal == [k |-> "null", items |-> <<>>]
NumVal == [k |-> "num", items |-> <<>>]
\* a string value: items are the agent identifiers that occur in it
StrVal(items) == [k |-> "str", items |-> items]
ListVal(items) == [k |-> "list", items |-> items]

Doc(kind, keys, atr, intent) ==
    [kind |-> kind, keys |-> keys, atr |-> atr, intent |-> intent]

EmptyText == Doc("empty", {}, NoVal, NoKey)
InvalidText == Doc("invalid", {}, NoVal, NoKey)
EmptyObject == Doc("obj", {}, NoVal, NoKey)

Range(s) == {s[i] : i \in DOMAIN s}

\* the lists the router returns: agents in the order of the router prompt
PlanLists ==
    { SelectSeq(AgentOrder, LAMBDA a : a \in S) :
        S \in {T \in SUBSET Agents : Cardinality(T) <= MaxPlanLen} }

AtrValues ==
    {NullVal, NumVal, StrVal(<<>>)}
    \cup {StrVal(<<a>>) : a \in Agents}
    \cup {ListVal(l) : l \in PlanLists}

\* texts that are valid JSON
JsonDocs ==
    {Doc("null", {}, NoVal, NoKey), Doc("num", {}, NoVal, NoKey)}
    \cup {Doc(kd, ks, NoVal, NoKey) : kd \in {"str", "list"}, ks \in SUBSET {K_ATR, K_PAR}}
    \cup {Doc("obj", ks, NoVal, i) : ks \in SUBSET {K_PAR}, i \in {NoKey, "intent"}}
    \cup {Doc("obj", {K_ATR}, v, NoKey) : v \in AtrValues}
    \cup {Doc("obj", {K_ATR, K_PAR}, v, "intent") : v \in AtrValues}

\* texts a successful router call returns
RouterTexts == {EmptyText, InvalidText} \cup JsonDocs

\* `x in value` of Python: TypeError for None and numbers
InRaises(doc) == doc.kind \in {"null", "num"}
In(x, doc) == x \in doc.keys

\* `value[x] = v` of Python: only a dict accepts a string key
SetItemRaises(doc) == doc.kind # "obj"

\* `value[x]` of Python with a string key: TypeError unless a dict
GetItemRaises(doc) == doc.kind # "obj"

\* `value.get(...)`: AttributeError unless a dict
GetRaises(doc) == doc.kind # "obj"

\* `name in active_agents`
MemberRaises(atr) == atr.k \in {"null", "num"}
Member(name, atr) == name \in Range(atr.items)

----------------------------------------------------------------------------
(* The INIT branch: parsing the router text, lines 119-126 *)

FallbackPlan_Empty == Doc("obj", {K_ATR, K_PAR}, ListVal(<<>>), "Fallback")
FallbackPlan == Doc("obj", {K_ATR, K_PAR}, ListVal(<<"GeneralAgent">>), "Fallback")

\* json.loads raises on a text that is not JSON
JsonLoadsRaises(text) == text.kind \in {"empty", "invalid"}

\* the two "Normalize keys" lines on a parsed value
NormalizeRaises(doc) ==
    \/ InRaises(doc)
    \/ (~In(K_ATR, doc) /\ SetItemRaises(doc))
    \/ (~In(K_PAR, doc) /\ SetItemRaises(doc))

Normalize(doc) ==
    [doc EXCEPT !.keys = @ \cup {K_ATR, K_PAR},
                !.atr = IF In(K_ATR, doc) THEN @ ELSE ListVal(<<"GeneralAgent">>)]

\* whether the try block ends in the except branch
ParseFails(text) == JsonLoadsRaises(text) \/ NormalizeRaises(text)

\* the plan after the try/except
ParsePlan(text) == IF ParseFails(text) THEN FallbackPlan ELSE Normalize(text)

----------------------------------------------------------------------------
(* results: a Python dict, kept with its insertion order as a sequence of  *)
(* [name, res] entries                                                     *)

Names(results) == {results[i].name : i \in DOMAIN results}
Has(results, name) == name \in Names(results)
Get(results, name) ==
    results[CHOOSE i \in DOMAIN results : results[i].name = name].res

Put_Clear(results, name, res) == <<[name |-> name, res |-> res]>>

\* results[name] = res: a new key is appended, an existing key keeps its place
Put(results, name, res) ==
    IF Has(results, name)
    THEN [i \in DOMAIN results |->
            IF results[i].name = name THEN [name |-> name, res |-> res]
            ELSE results[i]]
    ELSE Append(results, [name |-> name, res |-> res])

\* results.get(name, {}).get("text", default)
GetText(results, name, default) ==
    IF Has(results, name) THEN Get(results, name).text ELSE default

\* Python's `a or b` on texts: the empty string and None are falsy
Or(a, b) == IF a \in {"", None} THEN b ELSE a

----------------------------------------------------------------------------
(* Logs.  The time prefix of an entry is left out; the "Plan:" entry       *)
(* carries the formatted plan['agents_to_run'].                            *)

Entry(msg) == [msg |-> msg, arg |-> NoVal]
PlanEntry(atr) == [msg |-> "Plan:", arg |-> atr]

----------------------------------------------------------------------------
(* Which calls a stage hands to asyncio.gather, in dispatch order *)

Stage1Tasks_Both(active) ==
    (IF Member("ResearchAgent", active) THEN <<"ResearchAgent">> ELSE <<>>)
    \o (IF Member("GeneralAgent", active) THEN <<"GeneralAgent">> ELSE <<>>)
    \o (IF Member("CodeGenAgent", active) THEN <<"CodeGenAgent">> ELSE <<>>)
    \o (IF Member("ExplainAgent", active) THEN <<"ExplainAgent">> ELSE <<>>)

\* lines 140-150
Stage1Tasks(active) ==
    (IF Member("ResearchAgent", active) THEN <<"ResearchAgent">> ELSE <<>>)
    \o (IF Member("GeneralAgent", active) /\ ~Member("CodeGenAgent", active)
        THEN <<"GeneralAgent">> ELSE <<>>)
    \o (IF Member("CodeGenAgent", active) THEN <<"CodeGenAgent">> ELSE <<>>)
    \o (IF Member("ExplainAgent", active) THEN <<"ExplainAgent">> ELSE <<>>)

Stage2Tasks_Regenerate(active) ==
    <<"CodeGenAgent">>
    \o (IF Member("SafetyAgent", active) THEN <<"SafetyAgent">> ELSE <<>>)

\* lines 178-181
Stage2Tasks(active) ==
    (IF Member("SafetyAgent", active) THEN <<"SafetyAgent">> ELSE <<>>)
    \o (IF Member("TestGenAgent", active) THEN <<"TestGenAgent">> ELSE <<>>)
    \o (IF Member("DocstringAgent", active) THEN <<"DocstringAgent">> ELSE <<>>)
    \o (IF Member("TranslateAgent", active) THEN <<"TranslateAgent">> ELSE <<>>)

\* line 165-166: `not base_code` at the start of the STAGE1 branch
NoBaseCode_Never(results) == FALSE
NoBaseCode(results) == GetText(results, "CodeGenAgent", "") = ""

\* line 202 and line 219: the code the evaluator and the summary use
FinalCode(results) ==
    Or(GetText(results, "DocstringAgent", None), GetText(results, "CodeGenAgent", ""))

RunsEvaluator_NoCodeCheck(active, results) == Member("EvaluatorAgent", active)

\* line 204
RunsEvaluator(active, results) ==
    Member("EvaluatorAgent", active) /\ FinalCode(results) # ""

\* asyncio.gather returns once every awaitable has its result
GatherDone_Any(names, p) == \E i \in DOMAIN names : p[names[i]].st = "done"
GatherDone(names, p) == \A i \in DOMAIN names : p[names[i]].st = "done"

\* lines 156-157 and 187-188: for name, res in zip(names, results_sN)
RECURSIVE Record(_, _, _)
Record(results, names, p) ==
    IF names = <<>> THEN results
    ELSE Record(Put(results, Head(names), p[Head(names)].res), Tail(names), p)

----------------------------------------------------------------------------
(* get_summary, lines 213-234 (latency, a reading of the clock, left out) *)

get_summary(st) ==
    [ intent |-> IF st.plan.intent = NoKey THEN "Task" ELSE st.plan.intent,
      generated_code |-> FinalCode(st.results),
      explanation |-> Or(GetText(st.results, "ExplainAgent", None),
                         GetText(st.results, "GeneralAgent", None)),
      tests |-> GetText(st.results, "TestGenAgent", None),
      translation |-> GetText(st.results, "TranslateAgent", None),
      safety |-> GetText(st.results, "SafetyAgent", None),
      evaluation |-> GetText(st.results, "EvaluatorAgent", None),
      stage |-> st.stage,
      logs |-> st.logs ]

\* run_plan's return value, lines 270-273
PlanResult(st) == [summary |-> get_summary(st), raw_results |-> st.results]

\* run_orchestrator's except branch, lines 45-56
ErrorResult(e) ==
    [ summary |-> [intent |-> "Error", generated_code |-> "",
                   explanation |-> "System Error", error |-> e],
      raw_results |-> <<>> ]

\* `except Exception`: every exception of the model is an Exception
Catches_RuntimeOnly(e) == e = "RuntimeError"
Catches(e) == TRUE

NotReturned == [summary |-> [intent |-> "<not returned>"], raw_results |-> <<>>]

----------------------------------------------------------------------------
(* OrchestratorSession.__init__, to_json and Orchestrator.create_session,  *)
(* lines 84-108 and 261-262.  The optional `state` argument is a function: *)
(* the empty one stands for None and for an empty dict, which `if state:`  *)
(* treats alike.  start_time, a reading of the clock, is kept apart from   *)
(* the four other keys (sum_start).                                        *)

NoState == <<>>

\* lines 91-97
NewState == [stage |-> "INIT", plan |-> EmptyObject, results |-> <<>>, logs |-> <<>>]

\* line 88, `if state:`: a dict is true when it has a key
IsTruthy_Results(st) == DOMAIN st # {} /\ st.results # <<>>
IsTruthy(st) == DOMAIN st # {}

OrchestratorSession(prompt, st) ==
    [prompt |-> prompt, state |-> IF IsTruthy(st) THEN st ELSE NewState]

create_session(prompt, st) == OrchestratorSession(prompt, st)

to_json(s) == [prompt |-> s.prompt, state |-> s.state]

\* the prompts a session is created with
Prompts == {"", "write a function"}
UserPrompt == "write a function"

\* absence of a score: render_message_content did not reach line 279
NoScore == <<"<no score>">>

----------------------------------------------------------------------------
(* Initial state: run_orchestrator is about to be called; the session is   *)
(* the one create_session(user_prompt) builds, lines 91-97.                *)

NoRouteRes == [st |-> "none", text |-> EmptyText, ok |-> TRUE, error |-> NoKey]

\* no context was passed, and no call of the gather has returned
NoContext == <<>>
NoCall == "<no call>"

FreshSession ==
    /\ state = create_session(UserPrompt, NoState).state
    /\ pc = "idle"
    /\ tasks = <<>>
    /\ pool = [a \in Agents |-> Idle]
    /\ ctx = [a \in Agents |-> NoContext]
    /\ first_done = NoCall
    /\ route_res = NoRouteRes
    /\ issued = [c \in CallNames |-> 0]
    /\ finished = [c \in CallNames |-> 0]
    /\ failed = {}
    /\ exc = "none"
    /\ rpc = "entry"
    /\ ret = NotReturned

\* no run_llm call is being followed on its own
LLMIdle ==
    /\ llm_pc = "idle"
    /\ llm_exc = "none"
    /\ llm_text = <<>>
    /\ llm_ret = OkResult(<<>>)

\* the browser holds no saved session and nothing was restored
ResumeIdle ==
    /\ saved = <<>>
    /\ restored = "none"
    /\ reloads = 0
    /\ finalized = 0

\* the result run_python_code has not returned
NoRunResult == [stdout |-> "", stderr |-> "", return_code |-> 0]

\* a child process that was not started
NoChild == [kind |-> "none", stdout |-> "", stderr |-> "", rc |-> 0]

\* no run_python_code call is being followed
RunIdle ==
    /\ run_pc = "idle"
    /\ run_code = [src |-> "", encodable |-> TRUE]
    /\ run_child = NoChild
    /\ run_tmp = FALSE
    /\ run_ret = NoRunResult

\* the content of a JSON file holding {} and of a file json.load rejects
EmptyFile == [ok |-> TRUE, data |-> <<>>]
PartialFile == [ok |-> FALSE, data |-> <<>>]

\* memory types, keys and session ids followed
MemTypes == {"short", "long"}
MemKeys == {"user_goal", "preferred_language"}
ChatIds == {"id1", "id2"}

\* no put was made
NoPut == [kind |-> "no put", v |-> ""]

\* no MemoryStore key-value call is being followed
MemIdle ==
    /\ mem_files = [t \in MemTypes |-> EmptyFile]
    /\ mem_last = [kt \in MemKeys \X MemTypes |-> NoPut]
    /\ mem_ret = <<>>

\* no chat session call is being followed
ChatIdle ==
    /\ chat_files = [id \in ChatIds |-> <<>>]
    /\ chat_sent = [id \in ChatIds |-> <<>>]
    /\ chat_now = 0
    /\ chat_ret = <<>>

\* no agent run call is being followed
AgentIdle ==
    /\ ag_pc = "idle"
    /\ ag_name = ""
    /\ ag_text = <<>>
    /\ ag_ret = <<>>

\* no to_json() result is held and no session was created from one
AliasIdle ==
    /\ snap = <<>>
    /\ snap_then = <<>>
    /\ second = "none"

\* the UI sessions followed and what one of them writes when idle
UISessions == {"A", "B"}
NoArgs == [key |-> "", value |-> ""]

\* no two UI sessions are being followed
RaceIdle ==
    /\ race_op = "none"
    /\ race_args = [u \in UISessions |-> NoArgs]
    /\ race_pc = [u \in UISessions |-> "idle"]
    /\ race_local = [u \in UISessions |-> <<>>]
    /\ race_file = EmptyFile

ToolsIdle == RunIdle /\ MemIdle /\ ChatIdle /\ AgentIdle /\ AliasIdle /\ RaceIdle

\* no summary is being followed on its own
SummaryIdle ==
    /\ sum_pc = "idle"
    /\ sum_now = 0
    /\ sum_start = 0
    /\ sum_ret = <<>>
    /\ sum_score = NoScore

Init ==
    /\ FreshSession
    /\ sandbox_runs = 0
    /\ LLMIdle
    /\ ResumeIdle
    /\ ToolsIdle
    /\ SummaryIdle

\* a context is the f-string's literal parts, each followed by the text
\* that fills its placeholder
Part(label, text) == [label |-> label, text |-> text]

Stage1Context_Spliced(prompt) ==
    <<Part("", prompt), Part("\n\nResearch:\n", TextOf("ResearchAgent"))>>

\* lines 141-150: every Stage-1 call is given self.prompt
Stage1Context(prompt) == <<Part("", prompt)>>

\* lines 165, 172: context_for_derivs
Stage2Context(prompt, results) ==
    <<Part("Original Request: ", prompt),
      Part("\n\nCode:\n", GetText(results, "CodeGenAgent", ""))>>

EvalContext_Undocumented(prompt, results) ==
    <<Part("Req: ", prompt),
      Part("\nCode: ", GetText(results, "CodeGenAgent", "")),
      Part("\nTests: ", GetText(results, "TestGenAgent", ""))>>

\* lines 202, 206: eval_ctx
EvalContext(prompt, results) ==
    <<Part("Req: ", prompt),
      Part("\nCode: ", FinalCode(results)),
      Part("\nTests: ", GetText(results, "TestGenAgent", ""))>>

active_agents == state.plan.atr

Log(logs, msg) == Append(logs, Entry(msg))

\* a step of run_plan's loop can start
CanStep(stage) ==
    /\ rpc = "running"
    /\ exc = "none"
    /\ pc = "idle"
    /\ state.stage = stage

\* the exception leaves run_next_step with the session as `st`
Raise(e, st) ==
    /\ exc' = e
    /\ state' = st
    /\ UNCHANGED <<pc, tasks, pool, route_res, issued, finished, failed, rpc, ret, ctx, first_done>>

\* the coroutine hands `names` to the pool and waits in asyncio.gather
Dispatch(names, context, st, at) ==
    /\ state' = st
    /\ tasks' = names
    /\ ctx' = [a \in Agents |-> IF a \in Range(names) THEN context ELSE ctx[a]]
    /\ first_done' = NoCall
    /\ pool' = [a \in Agents |-> IF a \in Range(names) THEN Running ELSE pool[a]]
    /\ issued' = [c \in CallNames |->
                    IF c \in Range(names) THEN issued[c] + 1 ELSE issued[c]]
    /\ pc' = at
    /\ UNCHANGED <<route_res, finished, failed, exc, rpc, ret>>

\* a branch that ends without awaiting anything
Finish(st) ==
    /\ state' = st
    /\ UNCHANGED <<pc, tasks, pool, route_res, issued, finished, failed, exc, rpc, ret, ctx, first_done>>

\* the coroutine resumes after asyncio.gather and ends the branch
Resume(st) ==
    /\ state' = st
    /\ pc' = "idle"
    /\ tasks' = <<>>
    /\ pool' = [a \in Agents |-> IF a \in Range(tasks) THEN Idle ELSE pool[a]]
    /\ first_done' = NoCall
    /\ UNCHANGED <<route_res, issued, finished, failed, exc, rpc, ret, ctx>>

----------------------------------------------------------------------------
(* run_orchestrator, src/orchestrator/router.py *)

\* lines 22-43: with a running loop and no nest_asyncio, run_until_complete
\* raises RuntimeError before run_plan runs
RunOrchestratorCall ==
    /\ rpc = "entry"
    /\ \E loopRunning \in BOOLEAN, nest \in BOOLEAN :
          exc' = IF loopRunning /\ ~nest THEN "RuntimeError" ELSE "none"
    /\ rpc' = "running"
    /\ UNCHANGED <<state, pc, tasks, pool, route_res, issued, finished, failed, ret, ctx, first_done>>
    /\ UNCHANGED others

\* run_plan leaves its loop at COMPLETE, lines 267-273
RunPlanReturn ==
    /\ CanStep("COMPLETE")
    /\ ret' = PlanResult(state)
    /\ rpc' = "returned"
    /\ UNCHANGED <<state, pc, tasks, pool, route_res, issued, finished, failed, exc, ctx, first_done>>
    /\ UNCHANGED others

\* lines 45-56
RunOrchestratorExcept ==
    /\ rpc = "running"
    /\ exc # "none"
    /\ IF Catches(exc)
       THEN ret' = ErrorResult(exc) /\ rpc' = "returned"
       ELSE ret' = ret /\ rpc' = "raised"
    /\ UNCHANGED <<state, pc, tasks, pool, route_res, issued, finished, failed, exc, ctx, first_done>>
    /\ UNCHANGED others

----------------------------------------------------------------------------
(* Orchestrator.run_llm on the worker pool, lines 241-259.  A call ends   *)
(* with the dictionary _blocking_call returns; genai.configure and the     *)
(* GenerativeModel constructor, which run outside its try, get the module  *)
(* constants MODEL_FAST/MODEL_HEAVY and SAFETY_SETTINGS and return here;  *)
(* SpecLLM below follows one call in which they may raise.                 *)

\* the router call returns
RouterReturn ==
    /\ route_res.st = "running"
    /\ \/ /\ \E text \in RouterTexts :
               route_res' = [st |-> "done", text |-> text, ok |-> TRUE, error |-> NoKey]
          /\ failed' = failed
       \/ /\ route_res' = [st |-> "done", text |-> EmptyText, ok |-> FALSE,
                           error |-> GatewayError]
          /\ failed' = failed \cup {"Router"}
    /\ finished' = [finished EXCEPT !["Router"] = @ + 1]
    /\ UNCHANGED <<state, pc, tasks, pool, issued, exc, rpc, ret, ctx, first_done>>
    /\ UNCHANGED others

\* an agent call returns
RunLLMReturn(name) ==
    /\ pool[name].st = "running"
    /\ \E outcome \in Outcomes :
          /\ pool' = [pool EXCEPT ![name] = Done(Reply(name, outcome))]
          /\ failed' = IF outcome = "error" THEN failed \cup {name} ELSE failed
    /\ finished' = [finished EXCEPT ![name] = @ + 1]
    /\ first_done' = IF first_done = NoCall THEN name ELSE first_done
    /\ UNCHANGED <<state, pc, tasks, route_res, issued, exc, rpc, ret, ctx>>
    /\ UNCHANGED others

----------------------------------------------------------------------------
(* OrchestratorSession.run_next_step, lines 110-211 *)

\* INIT branch up to the await of the router call, lines 116-118
RouteRequest ==
    /\ CanStep("INIT")
    /\ state' = [state EXCEPT !.logs = Log(@, "Routing Request...")]
    /\ route_res' = [NoRouteRes EXCEPT !.st = "running"]
    /\ issued' = [issued EXCEPT !["Router"] = @ + 1]
    /\ pc' = "INIT"
    /\ UNCHANGED <<tasks, pool, finished, failed, exc, rpc, ret, ctx, first_done>>
    /\ UNCHANGED others

\* INIT branch after the await, lines 119-131; the f-string of line 130
\* subscripts the plan after the session already holds it
StorePlan ==
    /\ pc = "INIT"
    /\ route_res.st = "done"
    /\ LET plan == ParsePlan(route_res.text)
           logs1 == IF ParseFails(route_res.text)
                    THEN Log(state.logs, "Router failed JSON parse. Defaulting to GeneralChat.")
                    ELSE state.logs
           stored == [state EXCEPT !.plan = plan, !.stage = "PLANNED", !.logs = logs1]
       IN  IF GetItemRaises(plan)
           THEN /\ state' = stored
                /\ exc' = "TypeError"
           ELSE /\ state' = [stored EXCEPT !.logs = Append(@, PlanEntry(plan.atr))]
                /\ exc' = exc
    /\ pc' = "idle"
    /\ UNCHANGED <<tasks, pool, route_res, issued, finished, failed, rpc, ret, ctx, first_done>>
    /\ UNCHANGED others

\* PLANNED branch up to asyncio.gather, lines 133-155 (to 161 with no task)
StartStage1 ==
    /\ CanStep("PLANNED")
    /\ LET started == [state EXCEPT !.logs = Log(@, "Starting Stage 1 (Creation)...")]
           names == Stage1Tasks(active_agents)
       IN  IF GetRaises(state.plan) THEN Raise("AttributeError", state)
           ELSE IF MemberRaises(active_agents) THEN Raise("TypeError", started)
           ELSE IF names = <<>>
                THEN Finish([started EXCEPT !.stage = "STAGE1",
                                            !.logs = Log(@, "Stage 1 Complete.")])
                ELSE Dispatch(names, Stage1Context(UserPrompt), started, "PLANNED")
    /\ UNCHANGED others

\* PLANNED branch after asyncio.gather, lines 156-161
JoinStage1 ==
    /\ pc = "PLANNED"
    /\ GatherDone(tasks, pool)
    /\ Resume([state EXCEPT !.results = Record(@, tasks, pool),
                            !.stage = "STAGE1",
                            !.logs = Log(@, "Stage 1 Complete.")])
    /\ UNCHANGED others

\* STAGE1 branch up to asyncio.gather, lines 133, 164-186 (to 198 with no task)
StartStage2 ==
    /\ CanStep("STAGE1")
    /\ LET started == [state EXCEPT !.logs = Log(@, "Starting Stage 2 (Derivatives)...")]
           names == Stage2Tasks(active_agents)
       IN  IF GetRaises(state.plan) THEN Raise("AttributeError", state)
           ELSE IF NoBaseCode(state.results)
                THEN Finish([state EXCEPT !.stage = "STAGE2",
                                !.logs = Log(@, "No code generated, skipping Stage 2.")])
           ELSE IF MemberRaises(active_agents) THEN Raise("TypeError", started)
           ELSE IF names = <<>>
                THEN Finish([started EXCEPT !.stage = "STAGE2",
                                            !.logs = Log(@, "Stage 2 Complete.")])
                ELSE Dispatch(names, Stage2Context(UserPrompt, state.results),
                              started, "STAGE1")
    /\ UNCHANGED others

\* STAGE1 branch after asyncio.gather, lines 187-198
JoinStage2 ==
    /\ pc = "STAGE1"
    /\ GatherDone(tasks, pool)
    /\ Resume([state EXCEPT !.results = Record(@, tasks, pool),
                            !.stage = "STAGE2",
                            !.logs = Log(@, "Stage 2 Complete.")])
    /\ UNCHANGED others

\* STAGE2 branch up to the await of the evaluator call, lines 133, 201-207
\* (to 211 without an evaluator call)
StartStage3 ==
    /\ CanStep("STAGE2")
    /\ IF GetRaises(state.plan) THEN Raise("AttributeError", state)
       ELSE IF MemberRaises(active_agents) THEN Raise("TypeError", state)
       ELSE IF RunsEvaluator(active_agents, state.results)
            THEN Dispatch(<<"EvaluatorAgent">>,
                          EvalContext(UserPrompt, state.results),
                          [state EXCEPT !.logs = Log(@, "Starting Stage 3 (Evaluation)...")],
                          "STAGE2")
            ELSE Finish([state EXCEPT !.stage = "COMPLETE",
                                      !.logs = Log(@, "Workflow Complete.")])
    /\ UNCHANGED others

\* STAGE2 branch after the await, lines 207-211
JoinStage3 ==
    /\ pc = "STAGE2"
    /\ GatherDone(tasks, pool)
    /\ Resume([state EXCEPT !.results = Record(@, tasks, pool),
                            !.stage = "COMPLETE",
                            !.logs = Log(@, "Workflow Complete.")])
    /\ UNCHANGED others

----------------------------------------------------------------------------

Next ==
    \/ RunOrchestratorCall
    \/ RouteRequest
    \/ RouterReturn
    \/ StorePlan
    \/ StartStage1
    \/ \E name \in Agents : RunLLMReturn(name)
    \/ JoinStage1
    \/ StartStage2
    \/ JoinStage2
    \/ StartStage3
    \/ JoinStage3
    \/ RunPlanReturn
    \/ RunOrchestratorExcept

Spec == Init /\ [][Next]_vars

----------------------------------------------------------------------------
(* Properties *)

GeneralOnly == ListVal(<<"GeneralAgent">>)

\* the branch of run_next_step that started in stage INIT has ended
Planned == state.stage # "INIT"

\* C1: when the router text is not JSON (the empty text of a failed gateway
\* call included), the INIT step stores agents_to_run = [GeneralAgent],
\* moves the stage to PLANNED and raises nothing.
C1_UnparsableRouterTextFallsBack ==
    [][ (pc = "INIT" /\ pc' # "INIT" /\ JsonLoadsRaises(route_res.text))
        => /\ state'.plan.atr = GeneralOnly
           /\ state'.stage = "PLANNED"
           /\ exc' = "none" ]_vars

C1_Witness ==
    /\ route_res.st = "done"
    /\ ~route_res.ok
    /\ JsonLoadsRaises(route_res.text)
    /\ state.stage = "PLANNED"
    /\ state.plan.atr = GeneralOnly

\* a router text that is JSON but not a plan: not an object, or an object
\* whose agents_to_run is not a list
IllFormedPlan(text) ==
    /\ text \in JsonDocs
    /\ \/ text.kind # "obj"
       \/ (K_ATR \in text.keys /\ text.atr.k # "list")

\* C2: for a router text that is JSON but not a well-formed plan, the stored
\* plan has agents_to_run = [GeneralAgent] and no run_next_step raises on the
\* plan's shape.
C2_IllFormedPlanFallsBack ==
    (Planned /\ IllFormedPlan(route_res.text))
    => /\ state.plan.atr = GeneralOnly
       /\ exc \notin {"TypeError", "AttributeError"}

\* `b` directly follows `a` in the list
ImmediatelyAfter(list, a, b) ==
    \E i \in DOMAIN list : list[i] = a /\ i + 1 \in DOMAIN list /\ list[i + 1] = b

RouterListed(a) ==
    /\ route_res.text.kind = "obj"
    /\ route_res.text.atr.k = "list"
    /\ a \in Range(route_res.text.atr.items)

\* C3: when the router's list has CodeGenAgent and no SafetyAgent, the stored
\* plan has SafetyAgent right after CodeGenAgent, and SafetyAgent has been
\* called once Stage 2 is over whenever code was generated.
C3_SafetyAgentEnforced ==
    (Planned /\ RouterListed("CodeGenAgent") /\ ~RouterListed("SafetyAgent"))
    => /\ ImmediatelyAfter(state.plan.atr.items, "CodeGenAgent", "SafetyAgent")
       /\ (state.stage \in {"STAGE2", "COMPLETE"}
            /\ GetText(state.results, "CodeGenAgent", "") # "")
          => issued["SafetyAgent"] > 0

\* C4: no TestGenAgent or DocstringAgent call is issued unless a CodeGenAgent
\* call of the session has returned and is recorded; a plan that lists them
\* without CodeGenAgent never runs them.
C4_TestsAndDocsOnlyAfterCodeGen ==
    \A a \in {"TestGenAgent", "DocstringAgent"} :
        /\ issued[a] > 0 =>
              /\ finished["CodeGenAgent"] > 0
              /\ Has(state.results, "CodeGenAgent")
        /\ (Planned /\ ~Member("CodeGenAgent", active_agents)) => issued[a] = 0

C4_Witness ==
    /\ issued["TestGenAgent"] = 1
    /\ issued["DocstringAgent"] = 1
    /\ finished["CodeGenAgent"] = 1

AllReturned(S) == \A b \in S : finished[b] = issued[b]

\* C5: a Stage-2 call is issued only when every Stage-1 call has returned and
\* the CodeGenAgent result is recorded; the EvaluatorAgent call only when
\* every Stage-2 call has returned too.  Calls in flight belong to one stage.
C5_StagesNeverOverlap ==
    /\ \A a \in Stage2Agents :
          issued[a] > 0 =>
              /\ AllReturned(Stage1Agents)
              /\ Has(state.results, "CodeGenAgent")
    /\ issued["EvaluatorAgent"] > 0 =>
          AllReturned(Stage1Agents \cup Stage2Agents)
    /\ \A a \in Stage1Agents : pool[a].st = "running" => pc = "PLANNED"
    /\ \A a \in Stage2Agents : pool[a].st = "running" => pc = "STAGE1"
    /\ pool["EvaluatorAgent"].st = "running" => pc = "STAGE2"

C5_Witness ==
    /\ pool["EvaluatorAgent"].st = "running"
    /\ issued["ResearchAgent"] = 1
    /\ issued["CodeGenAgent"] = 1
    /\ issued["TestGenAgent"] = 1

\* C6: with CodeGenAgent and GeneralAgent both in the plan, GeneralAgent is
\* never called and never gets a results entry.
C6_GeneralAgentYieldsToCodeGen ==
    (Planned /\ Member("CodeGenAgent", active_agents)
             /\ Member("GeneralAgent", active_agents))
    => /\ issued["GeneralAgent"] = 0
       /\ ~Has(state.results, "GeneralAgent")

C6_Witness ==
    /\ Member("CodeGenAgent", active_agents)
    /\ Member("GeneralAgent", active_agents)
    /\ Has(state.results, "CodeGenAgent")
    /\ state.stage = "COMPLETE"

\* the text is one of the summary's fields
InSummary(summary, text) ==
    text \in { summary.generated_code, summary.explanation, summary.tests,
               summary.translation, summary.safety, summary.evaluation }

CodeGenFailed ==
    /\ Has(state.results, "CodeGenAgent")
    /\ Get(state.results, "CodeGenAgent").text = ""

\* C7: when the CodeGenAgent call fails or returns empty text, no Stage-2
\* agent and no EvaluatorAgent is called, the session reaches COMPLETE and the
\* summary holds the texts of the other Stage-1 agents.
C7_CodeGenFailureKeepsPartialResults ==
    (CodeGenFailed /\ exc = "none")
    => /\ \A a \in Stage2Agents \cup {"EvaluatorAgent"} : issued[a] = 0
       /\ rpc = "returned" =>
            /\ state.stage = "COMPLETE"
            /\ \A a \in Stage1Agents \ {"CodeGenAgent"} :
                  Has(state.results, a) =>
                      InSummary(ret.summary, Get(state.results, a).text)

\* the stage of agent `a` is over
StageOver(a) ==
    CASE a \in Stage1Agents -> state.stage \in {"STAGE1", "STAGE2", "COMPLETE"}
      [] a \in Stage2Agents -> state.stage \in {"STAGE2", "COMPLETE"}
      [] OTHER -> state.stage = "COMPLETE"

HasCode == GetText(state.results, "CodeGenAgent", "") # ""

C9_RunOrchestratorNeverRaises ==
    /\ rpc # "raised"
    /\ rpc = "returned" =>
          /\ "summary" \in DOMAIN ret
          /\ exc = "none" => ret = PlanResult(state)
          /\ exc # "none" =>
                /\ "error" \in DOMAIN ret.summary
                /\ ret.summary.error = exc
                /\ ret.raw_results = <<>>
    /\ (~ENABLED Next) => rpc = "returned"

C9_Witness ==
    /\ rpc = "returned"
    /\ exc = "TypeError"
    /\ ret.summary.intent = "Error"

AnyCallFailed == \E i \in DOMAIN state.results : ~state.results[i].res.ok

\* C10: when an agent call of the session failed, the summary returned for
\* the session has a populated error field.
C10_FailureSurfacesInSummary ==
    (rpc = "returned" /\ AnyCallFailed)
    => /\ "error" \in DOMAIN ret.summary
       /\ ret.summary.error \notin {"", None}

----------------------------------------------------------------------------
(* One Orchestrator.run_llm call on its own, lines 241-259, with each of   *)
(* its three library calls free to raise.  A reply is a sequence of        *)
(* tokens: the three fence markers line 253 removes (<fence> stands for   *)
(* the three backticks), a word, a blank.                                  *)

Fences == {"<fence>json", "<fence>python", "<fence>"}
Tokens == Fences \cup {"x", " "}

\* some sequence t[a..b], empty when a > b
Slice(t, a, b) == [i \in 1..(b + 1 - a) |-> t[i + a - 1]]

ReplyTexts == UNION {[1..n -> Tokens] : n \in 0..MaxTextLen}

\* text.replace(old, "")
Remove(text, old) == SelectSeq(text, LAMBDA tok : tok # old)

\* text.strip()
Strip(text) ==
    LET keep == {i \in DOMAIN text : text[i] # " "}
    IN  IF keep = {} THEN <<>>
        ELSE Slice(text, CHOOSE i \in keep : \A j \in keep : i <= j,
                         CHOOSE i \in keep : \A j \in keep : i >= j)

\* lines 252-253
CleanText(text) ==
    IF \E i \in DOMAIN text : text[i] \in Fences
    THEN Strip(Remove(Remove(Remove(text, "<fence>json"), "<fence>python"), "<fence>"))
    ELSE text

InitLLM ==
    /\ FreshSession
    /\ sandbox_runs = 0
    /\ llm_pc = "start"
    /\ llm_exc = "none"
    /\ llm_text = <<>>
    /\ llm_ret = OkResult(<<>>)
    /\ ResumeIdle
    /\ ToolsIdle
    /\ SummaryIdle

\* lines 243-244: genai.configure runs in the coroutine, outside any try
LLMConfigure ==
    /\ llm_pc = "start"
    /\ \E raises \in BOOLEAN :
          /\ llm_pc' = IF raises THEN "raised" ELSE "configured"
          /\ llm_exc' = IF raises THEN "configure" ELSE "none"
    /\ UNCHANGED <<llm_text, llm_ret>>
    /\ UNCHANGED <<vars, sandbox_runs, resumeVars, sumVars, toolVars>>

\* lines 246-259: _blocking_call on the executor.  The constructor of line 247
\* is outside the try, so its exception is the future's exception and the
\* await of line 259 raises it; generate_content and res.text are inside.
LLMBlockingCall ==
    /\ llm_pc = "configured"
    /\ \/ /\ llm_pc' = "raised"
          /\ llm_exc' = "construct"
          /\ UNCHANGED <<llm_text, llm_ret>>
       \/ /\ llm_pc' = "returned"
          /\ llm_exc' = "generate"
          /\ llm_ret' = FailResult(GatewayError)
          /\ UNCHANGED llm_text
       \/ \E text \in ReplyTexts :
             /\ llm_pc' = "returned"
             /\ llm_exc' = "none"
             /\ llm_text' = text
             /\ llm_ret' = OkResult(CleanText(text))
    /\ UNCHANGED <<vars, sandbox_runs, resumeVars, sumVars, toolVars>>

NextLLM == LLMConfigure \/ LLMBlockingCall

SpecLLM == InitLLM /\ [][NextLLM]_llmVars

\* C11: every exception raised while configuring, constructing or calling
\* the model ends in the result {text: "", ok: false, error}; run_llm never
\* raises.
C11_RunLLMIsErrorBoundary ==
    /\ llm_pc # "raised"
    /\ (llm_pc = "returned" /\ llm_exc # "none") =>
          /\ ~llm_ret.ok
          /\ llm_ret.text = ""
          /\ llm_ret.error = GatewayError

----------------------------------------------------------------------------
(* The evaluator call and the end of run_plan's loop *)

\* C12: the EvaluatorAgent is called at most once, only in the STAGE2 step
\* after every Stage-2 call has returned, and in a session that reached
\* COMPLETE it was called exactly when the plan lists it and CodeGenAgent
\* produced non-empty code.
C12_EvaluatorOnceIffPlannedAndCode ==
    /\ issued["EvaluatorAgent"] <= 1
    /\ issued["EvaluatorAgent"] = 1 =>
          /\ state.stage \in {"STAGE2", "COMPLETE"}
          /\ AllReturned(Stage2Agents)
          /\ finished["EvaluatorAgent"] = 0 => state.stage = "STAGE2"
    /\ state.stage = "COMPLETE" =>
          (issued["EvaluatorAgent"] = 1
             <=> (Member("EvaluatorAgent", active_agents) /\ HasCode))

C12_Witness ==
    /\ state.stage = "COMPLETE"
    /\ issued["EvaluatorAgent"] = 1
    /\ finished["EvaluatorAgent"] = 1
    /\ issued["DocstringAgent"] = 1

\* run_plan's loop is scheduled until it ends: every await resumes once its
\* calls have returned, and every gateway call returns
SpecLive == Spec /\ WF_vars(Next)

\* C13: a session whose first step has started reaches stage COMPLETE, for
\* every text the router returns.
C13_RunPlanReachesComplete ==
    (issued["Router"] > 0) ~> (state.stage = "COMPLETE")

----------------------------------------------------------------------------
(* Serialization *)

\* the session object of the running workflow
Session == [prompt |-> UserPrompt, state |-> state]

\* C14: at every stage a session reaches, create_session applied to the
\* prompt and state of its to_json() gives a session with the same prompt,
\* stage, plan, results and logs.
C14_SerializationRoundTrips ==
    \A p \in Prompts :
        LET s == [prompt |-> p, state |-> state]
            j == to_json(s)
            r == create_session(j.prompt, j.state)
        IN  /\ r.prompt = s.prompt
            /\ r.state.stage = s.state.stage
            /\ r.state.plan = s.state.plan
            /\ r.state.results = s.state.results
            /\ r.state.logs = s.state.logs

C14_Witness ==
    /\ state.stage = "STAGE1"
    /\ Has(state.results, "CodeGenAgent")
    /\ create_session(UserPrompt, to_json(Session).state).state.results = state.results

----------------------------------------------------------------------------
(* The workflow of src/app.py: a session made by process_prompt is advanced *)
(* one run_next_step per script run; local_storage_manager writes it to    *)
(* the browser's localStorage at the top of every script run and, when the *)
(* server side has no session, builds one from the saved text.  rpc =      *)
(* "running" is the workflow loop holding a session, "returned" the loop   *)
(* having deleted it.  json.dumps, the template-literal escaping of lines  *)
(* 40-42 and json.loads give back the prompt string and a state of the     *)
(* same strings, booleans, lists and string-keyed dicts.                   *)

\* number of times the server side loses its session and restores it
MaxReloads == 1

\* process_prompt, app.py lines 306-314
InitResume ==
    /\ state = create_session(UserPrompt, NoState).state
    /\ pc = "idle"
    /\ tasks = <<>>
    /\ pool = [a \in Agents |-> Idle]
    /\ ctx = [a \in Agents |-> NoContext]
    /\ first_done = NoCall
    /\ route_res = NoRouteRes
    /\ issued = [c \in CallNames |-> 0]
    /\ finished = [c \in CallNames |-> 0]
    /\ failed = {}
    /\ exc = "none"
    /\ rpc = "running"
    /\ ret = NotReturned
    /\ sandbox_runs = 0
    /\ LLMIdle
    /\ ResumeIdle
    /\ ToolsIdle
    /\ SummaryIdle

\* localStorage holds the session as it is now
Synced == saved = <<to_json(Session)>>

\* app.py line 130 with lines 38-56: the save at the top of a script run
AppSave ==
    /\ rpc = "running"
    /\ pc = "idle"
    /\ ~Synced
    /\ saved' = <<to_json(Session)>>
    /\ UNCHANGED <<restored, reloads, finalized>>
    /\ UNCHANGED <<vars, sandbox_runs, llmVars, sumVars, toolVars>>

\* app.py lines 341-356: the script run goes on to one run_next_step
AppRunNextStep ==
    /\ Synced
    /\ (RouteRequest \/ StartStage1 \/ StartStage2 \/ StartStage3)

\* app.py lines 358-383: the summary goes into the chat and the session is
\* deleted
AppFinalize ==
    /\ Synced
    /\ CanStep("COMPLETE")
    /\ ret' = PlanResult(state)
    /\ rpc' = "returned"
    /\ finalized' = finalized + 1          \* save_message, lines 373-378
    /\ UNCHANGED <<state, pc, tasks, pool, route_res, issued, finished, failed, exc, ctx, first_done>>
    /\ UNCHANGED <<saved, restored, reloads>>
    /\ UNCHANGED <<sandbox_runs, llmVars, sumVars, toolVars>>

\* app.py lines 58-107: a script run without a session (a new browser
\* session, or the session deleted) gets the saved text back through the
\* restored_state parameter and builds the session from it.  The calls of
\* the lost session are not the new session's: its counts start at zero.
AppRestore ==
    /\ saved # <<>>
    /\ reloads < MaxReloads
    /\ LET data == saved[1]
       IN  /\ state' = create_session(data.prompt, data.state).state
           /\ restored' = data.state.stage
    /\ pc' = "idle"
    /\ tasks' = <<>>
    /\ pool' = [a \in Agents |-> Idle]
    /\ ctx' = [a \in Agents |-> NoContext]
    /\ first_done' = NoCall
    /\ route_res' = NoRouteRes
    /\ exc' = "none"
    /\ rpc' = "running"
    /\ ret' = NotReturned
    /\ issued' = [c \in CallNames |-> 0]
    /\ finished' = [c \in CallNames |-> 0]
    /\ failed' = {}
    /\ reloads' = reloads + 1
    /\ UNCHANGED <<saved, finalized>>
    /\ UNCHANGED <<sandbox_runs, llmVars, sumVars, toolVars>>

NextResume ==
    \/ AppSave
    \/ AppRunNextStep
    \/ RouterReturn
    \/ StorePlan
    \/ \E name \in Agents : RunLLMReturn(name)
    \/ JoinStage1
    \/ JoinStage2
    \/ JoinStage3
    \/ AppFinalize
    \/ AppRestore

SpecResume == InitResume /\ [][NextResume]_<<vars, resumeVars>>

StageNo(stage) ==
    CASE stage = "INIT" -> 0
      [] stage = "PLANNED" -> 1
      [] stage = "STAGE1" -> 2
      [] stage = "STAGE2" -> 3
      [] stage = "COMPLETE" -> 4

\* the stage a call belongs to is complete once the session is past it
CallStageNo(c) ==
    CASE c = "Router" -> 0
      [] c \in Stage1Agents -> 1
      [] c \in Stage2Agents -> 2
      [] c = "EvaluatorAgent" -> 3

\* the calls a session that was never interrupted issues from stage `from` on,
\* read off the plan and results of the completed session
WouldIssue(from) ==
    (IF StageNo(from) <= 0 THEN {"Router"} ELSE {})
    \cup (IF StageNo(from) <= 1 THEN Range(Stage1Tasks(active_agents)) ELSE {})
    \cup (IF StageNo(from) <= 2 /\ HasCode
          THEN Range(Stage2Tasks(active_agents)) ELSE {})
    \cup (IF StageNo(from) <= 3 /\ RunsEvaluator(active_agents, state.results)
          THEN {"EvaluatorAgent"} ELSE {})

\* C15: a session restored from a state serialized at stage S never calls
\* the router or an agent of a stage before S, calls nothing twice, and once
\* COMPLETE has issued exactly the calls of the stages from S on; restored at
\* STAGE1 it issues Stage-2 and evaluator calls only.
C15_RestoredSessionSkipsCompletedStages ==
    restored # "none" =>
        /\ \A c \in CallNames :
              /\ issued[c] <= 1
              /\ issued[c] > 0 => CallStageNo(c) >= StageNo(restored)
        /\ state.stage = "COMPLETE" =>
              \A c \in CallNames : issued[c] = IF c \in WouldIssue(restored) THEN 1 ELSE 0
        /\ restored = "STAGE1" =>
              \A c \in {"Router"} \cup Stage1Agents : issued[c] = 0

C15_Witness ==
    /\ restored = "STAGE1"
    /\ state.stage = "COMPLETE"
    /\ Has(state.results, "CodeGenAgent")
    /\ issued["CodeGenAgent"] = 0
    /\ issued["SafetyAgent"] = 1
    /\ issued["EvaluatorAgent"] = 1

----------------------------------------------------------------------------
(* The sandbox runner, src/tools/run_code.py *)

\* C17: once TestGenAgent has produced tests for non-empty code, the code and
\* the tests have been run in the sandbox before the evaluator is called or
\* the session completes.
C17_TestsRunInSandboxBeforeStage3 ==
    ( /\ GetText(state.results, "TestGenAgent", "") # ""
      /\ HasCode
      /\ (issued["EvaluatorAgent"] > 0 \/ state.stage = "COMPLETE") )
    => sandbox_runs >= 1

----------------------------------------------------------------------------
(* get_summary on its own, lines 213-234, and the score that               *)
(* render_message_content (src/app.py lines 246-287) takes from it.  The   *)
(* session is one create_session builds from a state dict handed to it, as *)
(* the restore of app.py lines 62-73 does with the restored_state          *)
(* parameter: stage COMPLETE and any of the results below.                 *)

\* ticks the clock advances while the summary is built and shown
MaxClock == 3

\* get_summary calls made on the session
MaxCalls == 2

SummaryOrder == <<"CodeGenAgent", "DebuggingAgent", "DocstringAgent", "EvaluatorAgent">>

\* evaluator replies, each with the pieces line 281 tells apart: the marker
\* "Score:", the slash, blanks, other text
EvalReplies ==
    { [text |-> "Score: 8/10. Justification: ok",
       toks |-> <<"Score:", " ", "8", "/", "10. Justification: ok">>],
      [text |-> "Looks fine.", toks |-> <<"Looks fine.">>],
      [text |-> "Score: 7", toks |-> <<"Score:", " ", "7">>],
      [text |-> "Good. Score: 9 /10 Score: 2/10",
       toks |-> <<"Good.", " ", "Score:", " ", "9", " ", "/", "10", " ",
                  "Score:", " ", "2", "/", "10">>],
      [text |-> "Score:", toks |-> <<"Score:">>] }

EvalTexts == {r.text : r \in EvalReplies}

TokensOf(text) ==
    IF text \in EvalTexts THEN (CHOOSE r \in EvalReplies : r.text = text).toks
    ELSE IF text = "" THEN <<>>
    ELSE <<text>>

\* a key the results dict does not have
Absent == [text |-> None, ok |-> FALSE, error |-> NoKey]

ResultChoices(a) ==
    IF a = "EvaluatorAgent"
    THEN {Absent, FailResult(GatewayError), OkResult("")}
         \cup {OkResult(t) : t \in EvalTexts}
    ELSE {Absent, OkResult(""), OkResult(TextOf(a))}

SummaryResults ==
    { SelectSeq([i \in DOMAIN SummaryOrder |->
                    [name |-> SummaryOrder[i], res |-> f[SummaryOrder[i]]]],
                LAMBDA e : e.res # Absent) :
        f \in { g \in [Range(SummaryOrder) ->
                        UNION {ResultChoices(a) : a \in Range(SummaryOrder)}] :
                  \A a \in Range(SummaryOrder) : g[a] \in ResultChoices(a) } }

SummaryPlans ==
    {FallbackPlan, Doc("obj", {K_ATR, K_PAR}, ListVal(<<"CodeGenAgent">>), "intent")}

RestoredStates ==
    { [stage |-> "COMPLETE", plan |-> p, results |-> r, logs |-> <<>>] :
        p \in SummaryPlans, r \in SummaryResults }

\* line 221 and line 231: f"{latency:.2f}s", the clock in ticks of 5 ms
Latency(start, now) == ((now - start) + 1) \div 2

\* lines 223-234 with the latency key
SummaryAt(st, start, now) ==
    LET s == get_summary(st)
    IN  [k \in DOMAIN s \cup {"latency"} |->
            IF k = "latency" THEN Latency(start, now) ELSE s[k]]

\* dict.get(key, default)
DictGet(d, key, default) == IF key \in DOMAIN d THEN d[key] ELSE default

NotAvailable == <<"N/A">>

\* index of the first `tok` in `toks`, Len(toks) + 1 if there is none
First(toks, tok) ==
    IF \E i \in DOMAIN toks : toks[i] = tok
    THEN CHOOSE i \in DOMAIN toks : toks[i] = tok /\ \A j \in 1..(i - 1) : toks[j] # tok
    ELSE Len(toks) + 1

\* the part of `toks` before the first `tok`: split(tok)[0]
Before(toks, tok) == Slice(toks, 1, First(toks, tok) - 1)

\* the part of `toks` after the first `tok`
After(toks, tok) == Slice(toks, First(toks, tok) + 1, Len(toks))

\* app.py line 281: eval_text.split("Score:")[1].split("/")[0].strip() + "/10"
ExtractScore(toks) ==
    Strip(Before(Before(After(toks, "Score:"), "Score:"), "/")) \o <<"/", "10">>

\* app.py line 280: `"Score:" in eval_text` raises TypeError on None
InTextRaises(eval_text) == eval_text = None

\* app.py lines 247 and 278-281
RenderedScore(summary) ==
    LET eval_text == DictGet(summary, "evaluation", "No evaluation.")
    IN  IF "Score:" \in Range(TokensOf(eval_text))
        THEN ExtractScore(TokensOf(eval_text))
        ELSE NotAvailable

InitSummary ==
    /\ state \in {create_session(UserPrompt, st).state : st \in RestoredStates}
    /\ pc = "idle"
    /\ tasks = <<>>
    /\ pool = [a \in Agents |-> Idle]
    /\ ctx = [a \in Agents |-> NoContext]
    /\ first_done = NoCall
    /\ route_res = NoRouteRes
    /\ issued = [c \in CallNames |-> 0]
    /\ finished = [c \in CallNames |-> 0]
    /\ failed = {}
    /\ exc = "none"
    /\ rpc = "running"
    /\ ret = NotReturned
    /\ sandbox_runs = 0
    /\ LLMIdle
    /\ ResumeIdle
    /\ ToolsIdle
    /\ sum_pc = "start"
    /\ sum_now = 0
    /\ sum_start = 0
    /\ sum_ret = <<>>
    /\ sum_score = NoScore

\* time passes
ClockTick ==
    /\ sum_now < MaxClock
    /\ sum_now' = sum_now + 1
    /\ UNCHANGED <<sum_pc, sum_start, sum_ret, sum_score>>
    /\ UNCHANGED <<vars, sandbox_runs, llmVars, resumeVars, toolVars>>

\* one call of get_summary: it assigns to nothing of the session
GetSummary ==
    /\ sum_pc \in {"start", "summarized"}
    /\ Len(sum_ret) < MaxCalls
    /\ sum_ret' = Append(sum_ret, SummaryAt(state, sum_start, sum_now))
    /\ sum_pc' = "summarized"
    /\ UNCHANGED <<sum_now, sum_start, sum_score>>
    /\ UNCHANGED <<vars, sandbox_runs, llmVars, resumeVars, toolVars>>

\* render_message_content on the latest summary, app.py lines 246-287: the
\* score is computed only when the summary has code
RenderScore ==
    /\ sum_pc = "summarized"
    /\ LET summary == sum_ret[Len(sum_ret)]
       IN  IF summary.generated_code \in {"", None}
           THEN sum_pc' = "rendered" /\ sum_score' = NoScore
           ELSE IF InTextRaises(DictGet(summary, "evaluation", "No evaluation."))
                THEN sum_pc' = "raised" /\ sum_score' = NoScore
                ELSE sum_pc' = "rendered" /\ sum_score' = RenderedScore(summary)
    /\ UNCHANGED <<sum_now, sum_start, sum_ret>>
    /\ UNCHANGED <<vars, sandbox_runs, llmVars, resumeVars, toolVars>>

NextSummary == ClockTick \/ GetSummary \/ RenderScore

SpecSummary == InitSummary /\ [][NextSummary]_sumVars

\* the order of the summary's final code: documentation output, else debug
\* output, else generated code, else the empty string
ResolvedCode(results) ==
    Or(GetText(results, "DocstringAgent", None),
       Or(GetText(results, "DebuggingAgent", None),
          Or(GetText(results, "CodeGenAgent", None), "")))

\* C18: for every subset of the DocstringAgent, debug-agent and CodeGenAgent
\* results being populated, the summary's generated_code is the documentation
\* output, else the debug output, else the generated code, else "".
C18_FinalCodeResolutionOrder ==
    \A i \in DOMAIN sum_ret : sum_ret[i].generated_code = ResolvedCode(state.results)

\* C19: two get_summary calls on a session with the same results and plan
\* return the same summary.
C19_SummaryIsDeterministic ==
    \A i, j \in DOMAIN sum_ret : sum_ret[i] = sum_ret[j]

EvaluationOf(results) == GetText(results, "EvaluatorAgent", "")

\* C20: showing a summary never raises; without evaluator output, or with
\* output that lacks the marker, the score is N/A; with the marker it is the
\* text between "Score:" and the next "/".
C20_ScoreExtractionNeverRaises ==
    /\ sum_pc # "raised"
    /\ (sum_pc = "rendered" /\ sum_score # NoScore) =>
          LET toks == TokensOf(EvaluationOf(state.results))
          IN  IF "Score:" \in Range(toks)
              THEN \E i, j \in DOMAIN toks :
                      /\ toks[i] = "Score:"
                      /\ sum_score = Strip(Slice(toks, i + 1, j)) \o <<"/", "10">>
              ELSE sum_score = NotAvailable

----------------------------------------------------------------------------
(* run_python_code, src/tools/run_code.py lines 8-75.  A code string is    *)
(* its text and whether the encoding of the temporary file can encode it   *)
(* (a lone surrogate cannot be encoded as UTF-8, a non-ASCII letter not    *)
(* under an ASCII locale).  The child process is opaque: it exits with a   *)
(* code and two output streams, outlives the timeout, cannot be started,   *)
(* or writes bytes the text mode of subprocess.run cannot decode.          *)

\* largest exit code a child is made to end with
MaxExit == 2

Codes ==
    { [src |-> "print('Hello World')", encodable |-> TRUE],
      [src |-> "print(1/0)", encodable |-> TRUE],
      [src |-> "while True: pass", encodable |-> TRUE],
      [src |-> "import sys; sys.exit(2)", encodable |-> TRUE],
      [src |-> "print('\\udc80')", encodable |-> FALSE] }

Stdouts == {"", "Hello World\n", "1\n2\n"}
Stderrs == {"", "ZeroDivisionError", "DeprecationWarning"}

Exited(rc, out, err) == [kind |-> "exit", stdout |-> out, stderr |-> err, rc |-> rc]

ChildOutcomes ==
    {Exited(rc, out, err) : rc \in 0..MaxExit, out \in Stdouts, err \in Stderrs}
    \cup {[NoChild EXCEPT !.kind = k] : k \in {"timeout", "launch failure"}}
    \cup {[kind |-> "undecodable", stdout |-> "", stderr |-> "", rc |-> rc] :
            rc \in 0..MaxExit}

TimeoutMessage == "Error: Code execution timed out after 10 seconds."
UnexpectedMessage == "An unexpected error occurred"

\* lines 34-70: what the try statement returns for a child outcome
RunResult(child) ==
    CASE child.kind = "exit" ->
            [stdout |-> child.stdout, stderr |-> child.stderr, return_code |-> child.rc]
      [] child.kind = "timeout" ->
            [stdout |-> "", stderr |-> TimeoutMessage, return_code |-> 1]
      [] OTHER ->
            [stdout |-> "", stderr |-> UnexpectedMessage, return_code |-> 1]

InitRun ==
    /\ FreshSession
    /\ sandbox_runs = 0
    /\ LLMIdle
    /\ ResumeIdle
    /\ SummaryIdle
    /\ AliasIdle
    /\ RaceIdle
    /\ MemIdle
    /\ ChatIdle
    /\ AgentIdle
    /\ run_pc = "start"
    /\ run_code \in Codes
    /\ run_child = NoChild
    /\ run_tmp = FALSE
    /\ run_ret = NoRunResult

\* lines 25-27, outside the try statement: NamedTemporaryFile(delete=False)
\* creates the file, write encodes the code string, the with block closes it
RunWriteTemp ==
    /\ run_pc = "start"
    /\ \/ /\ run_pc' = "raised"           \* the file cannot be created
          /\ run_tmp' = FALSE
       \/ /\ ~run_code.encodable          \* write raises UnicodeEncodeError
          /\ run_pc' = "raised"
          /\ run_tmp' = TRUE
       \/ /\ run_code.encodable
          /\ run_pc' = "written"
          /\ run_tmp' = TRUE
    /\ UNCHANGED <<run_code, run_child, run_ret>>
    /\ UNCHANGED <<vars, sandbox_runs, llmVars, resumeVars, sumVars, memVars, chatVars, agVars, aliasVars, raceVars>>

\* lines 31-75: subprocess.run, the three ways out of the try statement and
\* the finally clause that removes the file
RunSubprocess ==
    /\ run_pc = "written"
    /\ \E child \in ChildOutcomes :
          /\ run_child' = child
          /\ run_ret' = RunResult(child)
    /\ run_tmp' = FALSE
    /\ run_pc' = "returned"
    /\ UNCHANGED run_code
    /\ UNCHANGED <<vars, sandbox_runs, llmVars, resumeVars, sumVars, memVars, chatVars, agVars, aliasVars, raceVars>>

NextRun == RunWriteTemp \/ RunSubprocess

SpecRun == InitRun /\ [][NextRun]_runVars

\* C21: run_python_code never raises; a child that exits is reported with
\* its exit code and output, a child that outlives the timeout with
\* return_code # 0, empty stdout and the timeout message.
C21_RunPythonCodeNeverRaises ==
    /\ run_pc # "raised"
    /\ run_pc = "returned" =>
          /\ DOMAIN run_ret = {"stdout", "stderr", "return_code"}
          /\ run_child.kind \in {"exit", "undecodable"} =>
                /\ run_ret.return_code = run_child.rc
                /\ run_child.kind = "exit" =>
                      /\ run_ret.stdout = run_child.stdout
                      /\ run_ret.stderr = run_child.stderr
          /\ run_child.kind = "timeout" =>
                /\ run_ret.return_code # 0
                /\ run_ret.stdout = ""
                /\ run_ret.stderr = TimeoutMessage

----------------------------------------------------------------------------
(* MemoryStore.put and MemoryStore.get (memory_store.py), followed on      *)
(* their own: SpecMem.  A backing file is a JSON document; a dictionary is  *)
(* the sequence of its items in insertion order.                           *)

\* Python values passed to put, by type
Str(s) == [kind |-> "str", v |-> s]
TupleVal == [kind |-> "tuple", v |-> "Python,Rust"]
SetVal == [kind |-> "set", v |-> "Python,Rust"]
NoneVal == [kind |-> "None", v |-> ""]
MemValues == {Str("build website"), Str("Python"), TupleVal, SetVal}

\* json.dump raises TypeError on a value that has no JSON form
Serializable(v) == v.kind # "set"

\* what json.load gives back for a value json.dump wrote: a tuple is written
\* as an array and read as a list
JsonRoundTrip(v) == IF v.kind = "tuple" THEN [v EXCEPT !.kind = "list"] ELSE v

\* line 46, 50: every memory type other than "long" is the short-term file
PathOf(memory_type) == IF memory_type = "long" THEN "long" ELSE "short"

\* _load: the parsed document, {} on any exception
_load(file) == IF file.ok THEN file.data ELSE <<>>

\* _save: open(filepath, 'w') truncates, json.dump writes item by item and
\* the exception it raises on the way is logged and swallowed
_save(data) ==
    IF \A i \in DOMAIN data : Serializable(data[i].res)
    THEN [ok |-> TRUE,
          data |-> [i \in DOMAIN data |->
                      [name |-> data[i].name,
                       res |-> JsonRoundTrip(data[i].res)]]]
    ELSE PartialFile

\* get: _load(path).get(key)
get(files, key, memory_type) ==
    LET data == _load(files[PathOf(memory_type)])
    IN  IF Has(data, key) THEN Get(data, key) ELSE NoneVal

\* put: load, assign, save
put(files, key, value, memory_type) ==
    LET path == PathOf(memory_type)
        data == _load(files[path])
    IN  [files EXCEPT ![path] = _save(Put(data, key, value))]

InitMem ==
    /\ FreshSession
    /\ sandbox_runs = 0
    /\ LLMIdle
    /\ ResumeIdle
    /\ SummaryIdle
    /\ AliasIdle
    /\ RaceIdle
    /\ RunIdle
    /\ ChatIdle
    /\ AgentIdle
    /\ mem_files = [t \in MemTypes |-> EmptyFile]   \* __init__, _init_file
    /\ mem_last = [kt \in MemKeys \X MemTypes |-> NoPut]
    /\ mem_ret = <<>>

notMem == <<vars, sandbox_runs, llmVars, resumeVars, sumVars, runVars, chatVars, agVars,
            aliasVars, raceVars>>

MemPut ==
    /\ \E key \in MemKeys, value \in MemValues, memory_type \in MemTypes :
          /\ mem_files' = put(mem_files, key, value, memory_type)
          /\ mem_last' = [mem_last EXCEPT ![<<key, memory_type>>] = value]
    /\ mem_ret' = <<>>
    /\ UNCHANGED notMem

\* get on the store that made the puts or on a new MemoryStore of the same
\* directory: __init__ leaves the files that exist as they are
MemGet ==
    /\ \E key \in MemKeys, memory_type \in MemTypes, store \in {"same", "new"} :
          mem_ret' = <<[key |-> key, memory_type |-> memory_type,
                        store |-> store,
                        value |-> get(mem_files, key, memory_type)]>>
    /\ UNCHANGED <<mem_files, mem_last>>
    /\ UNCHANGED notMem

NextMem == MemPut \/ MemGet

SpecMem == InitMem /\ [][NextMem]_memVars

\* what the most recent put of a key and memory type leads one to expect
MostRecentPut(key, memory_type) ==
    IF mem_last[<<key, memory_type>>] = NoPut THEN NoneVal
    ELSE mem_last[<<key, memory_type>>]

\* C22: after any sequence of puts, get(k, t) is the value of the most recent
\* put(k, v, t), None if there was none, on the same store and on a new store
\* of the same directory, and the backing file holds that value.
C22_GetReturnsMostRecentPut ==
    /\ \A key \in MemKeys, memory_type \in MemTypes :
          get(mem_files, key, memory_type) = MostRecentPut(key, memory_type)
    /\ mem_ret # <<>> =>
          mem_ret[1].value = MostRecentPut(mem_ret[1].key, mem_ret[1].memory_type)

----------------------------------------------------------------------------
(* The run methods of the agents that return code (agents/coding_agent.py, *)
(* test_generator_agent.py, translate_agent.py), followed on their own:    *)
(* SpecAgents.  The model's response.text is a sequence of tokens: an       *)
(* opening fence with or without a language word, a closing fence, a word   *)
(* of code, white space.                                                   *)

AgentFences == {"<fence>python", "<fence>cpp", "<fence>"}
AgentTokens == AgentFences \cup {"x", " "}
AgentTexts == UNION {[1..n -> AgentTokens] : n \in 0..MaxTextLen}
CodeAgents == {"CodingAgent", "TestGeneratorAgent", "TranslateAgent"}

\* text.replace("<three backticks>", ""): the language word of a fence stays
RemoveBackticks(text) ==
    LET rest == Remove(text, "<fence>")
    IN  [i \in DOMAIN rest |->
            CASE rest[i] = "<fence>python" -> "python"
              [] rest[i] = "<fence>cpp" -> "cpp"
              [] OTHER -> rest[i]]

\* text.rstrip("`")
RStripBackticks(text) ==
    LET keep == {i \in DOMAIN text : text[i] # "<fence>"}
    IN  IF keep = {} THEN <<>>
        ELSE Slice(text, 1, CHOOSE i \in keep : \A j \in keep : i >= j)

\* coding_agent.py lines 68-72
CodingAgentClean(text) ==
    LET stripped == Strip(text)
        opened == IF stripped # <<>> /\ stripped[1] = "<fence>python"
                  THEN Strip(Remove(stripped, "<fence>python"))
                  ELSE stripped
    IN  IF opened # <<>> /\ opened[Len(opened)] = "<fence>"
        THEN Strip(RStripBackticks(opened))
        ELSE opened

\* test_generator_agent.py line 69
TestGeneratorAgentClean(text) ==
    Strip(RemoveBackticks(Remove(Strip(text), "<fence>python")))

\* translate_agent.py lines 55-58: response.text is returned as it is
TranslateAgentClean(text) == text

AgentClean(name, text) ==
    CASE name = "CodingAgent" -> CodingAgentClean(text)
      [] name = "TestGeneratorAgent" -> TestGeneratorAgentClean(text)
      [] OTHER -> TranslateAgentClean(text)

\* the except clause of each run: f"An error occurred: {e}"
AgentError == <<"An error occurred">>

InitAgents ==
    /\ FreshSession
    /\ sandbox_runs = 0
    /\ LLMIdle
    /\ ResumeIdle
    /\ SummaryIdle
    /\ AliasIdle
    /\ RaceIdle
    /\ RunIdle
    /\ MemIdle
    /\ ChatIdle
    /\ ag_pc = "start"
    /\ ag_name = ""
    /\ ag_text = <<>>
    /\ ag_ret = <<>>

notAgents == <<vars, sandbox_runs, llmVars, resumeVars, sumVars, runVars, memVars, chatVars,
               aliasVars, raceVars>>

\* one run call: generate_content raises and the except clause answers, or
\* the model's text is cleaned and returned
AgentRun(name) ==
    /\ ag_pc = "start"
    /\ ag_name' = name
    /\ \/ /\ ag_pc' = "failed"
          /\ ag_ret' = AgentError
          /\ UNCHANGED ag_text
       \/ \E text \in AgentTexts :
             /\ ag_pc' = "returned"
             /\ ag_text' = text
             /\ ag_ret' = AgentClean(name, text)
    /\ UNCHANGED notAgents

NextAgents == \E name \in CodeAgents : AgentRun(name)

SpecAgents == InitAgents /\ [][NextAgents]_agVars

\* a text that is one fenced block, and the block's body
IsFenced(text) ==
    LET s == Strip(text)
    IN  /\ Len(s) >= 2
        /\ s[1] \in AgentFences
        /\ s[Len(s)] = "<fence>"
        /\ \A i \in 2..(Len(s) - 1) : s[i] \notin AgentFences
FencedBody(text) == LET s == Strip(text) IN Strip(Slice(s, 2, Len(s) - 1))

\* C23: for every model output text, each of the three agents returns the
\* code without fence wrappers: no fence is left in the returned string, and
\* for a fenced text the returned string is the fenced body.
C23_AgentsRemoveFenceWrappers ==
    ag_pc = "returned" =>
       /\ \A i \in DOMAIN ag_ret : ag_ret[i] \notin AgentFences
       /\ IsFenced(ag_text) => ag_ret = FencedBody(ag_text)

----------------------------------------------------------------------------
(* The chat sessions of MemoryStore (memory_store.py lines 74-142),         *)
(* followed on their own: SpecChat.  Each session is one JSON file of the   *)
(* chats directory; datetime.now() is a clock that every reading advances. *)

MaxChatOps == 4

DictVal == [kind |-> "dict", v |-> "summary"]

\* the arguments of the save_message calls followed: role, content (of at
\* most 30 characters) and metadata
ChatMessages ==
    {[role |-> "user", content |-> "Hello, world!", metadata |-> NoneVal],
     [role |-> "assistant", content |-> "Hello!", metadata |-> DictVal],
     [role |-> "assistant", content |-> "Hello!", metadata |-> SetVal]}

\* a chat file json.load rejects
PartialChat ==
    [ok |-> FALSE, id |-> "", title |-> "", updated_at |-> 0, messages |-> <<>>]

\* _save of a session's chat_data
SaveChat(chat_data) ==
    IF \A i \in DOMAIN chat_data.messages :
          Serializable(chat_data.messages[i].metadata)
    THEN [chat_data EXCEPT
            !.messages = [i \in DOMAIN chat_data.messages |->
                [chat_data.messages[i] EXCEPT
                    !.metadata = JsonRoundTrip(chat_data.messages[i].metadata)]]]
    ELSE PartialChat

\* lines 76-83
NewChat(session_id, title, timestamp) ==
    [ok |-> TRUE, id |-> session_id, title |-> title,
     updated_at |-> timestamp, messages |-> <<>>]

\* lines 95-100: the message save_message appends; `metadata or {}`
StoredMessage(msg, timestamp) ==
    [role |-> msg.role, content |-> msg.content, timestamp |-> timestamp,
     metadata |-> IF msg.metadata = NoneVal THEN [DictVal EXCEPT !.v = ""]
                  ELSE msg.metadata]

\* lines 101-107, on a file that parsed
WithMessage(chat_data, msg, timestamp) ==
    LET messages == Append(chat_data.messages, StoredMessage(msg, timestamp))
    IN  [chat_data EXCEPT
            !.messages = messages,
            !.updated_at = timestamp,
            !.title = IF msg.role = "user" /\ Len(messages) = 1
                         /\ chat_data.title = "New Chat"
                      THEN msg.content ELSE @]

\* load_chat_history
load_chat_history(files, session_id) ==
    IF files[session_id] = <<>> THEN <<>>
    ELSE files[session_id][1].messages        \* {}.get("messages", []) is []

\* sessions.sort(key=updated_at, reverse=True): stable, descending
RECURSIVE SortDescending(_)
SortDescending(sessions) ==
    IF sessions = <<>> THEN <<>>
    ELSE LET head == SortDescending(Slice(sessions, 1, Len(sessions) - 1))
             x == sessions[Len(sessions)]
             before == {i \in DOMAIN head : head[i].updated_at >= x.updated_at}
             n == Cardinality(before)
         IN  Slice(head, 1, n) \o <<x>> \o Slice(head, n + 1, Len(head))

\* the orders os.listdir may give the files in
ListDirs == {<<"id1", "id2">>, <<"id2", "id1">>}

\* list_chat_sessions, for one order of os.listdir
list_chat_sessions(files, listdir) ==
    LET parsed == SelectSeq(listdir,
                     LAMBDA id : files[id] # <<>> /\ files[id][1].ok)
    IN  SortDescending([i \in DOMAIN parsed |->
            [id |-> files[parsed[i]][1].id,
             title |-> files[parsed[i]][1].title,
             updated_at |-> files[parsed[i]][1].updated_at]])

InitChat ==
    /\ FreshSession
    /\ sandbox_runs = 0
    /\ LLMIdle
    /\ ResumeIdle
    /\ SummaryIdle
    /\ AliasIdle
    /\ RaceIdle
    /\ RunIdle
    /\ MemIdle
    /\ AgentIdle
    /\ chat_files = [id \in ChatIds |-> <<>>]
    /\ chat_sent = [id \in ChatIds |-> <<>>]
    /\ chat_now = 1
    /\ chat_ret = <<>>

notChat == <<vars, sandbox_runs, llmVars, resumeVars, sumVars, runVars, memVars, agVars,
             aliasVars, raceVars>>

\* create_chat_session: uuid4 names a file that does not exist
CreateChatSession ==
    /\ chat_now <= MaxChatOps
    /\ \E session_id \in ChatIds, title \in {"New Chat", "Test Chat 1"} :
          /\ chat_files[session_id] = <<>>
          /\ chat_files' = [chat_files EXCEPT ![session_id] =
                               <<SaveChat(NewChat(session_id, title, chat_now))>>]
          /\ chat_sent' = [chat_sent EXCEPT ![session_id] = <<>>]
    /\ chat_now' = chat_now + 1
    /\ chat_ret' = <<>>
    /\ UNCHANGED notChat

\* save_message: nothing for a session without a file, KeyError on
\* chat_data["messages"] when the file does not parse
SaveMessage ==
    /\ chat_now <= MaxChatOps
    /\ \E session_id \in ChatIds, msg \in ChatMessages :
          \/ /\ chat_files[session_id] = <<>>
             /\ chat_ret' = <<>>
             /\ UNCHANGED <<chat_files, chat_sent, chat_now>>
          \/ /\ chat_files[session_id] # <<>>
             /\ ~chat_files[session_id][1].ok
             /\ chat_ret' = <<[op |-> "save_message", id |-> session_id,
                               raised |-> TRUE, value |-> <<>>]>>
             /\ chat_sent' = [chat_sent EXCEPT ![session_id] = Append(@, msg)]
             /\ chat_now' = chat_now + 1     \* line 98 is before line 100
             /\ UNCHANGED chat_files
          \/ /\ chat_files[session_id] # <<>>
             /\ chat_files[session_id][1].ok
             /\ chat_files' = [chat_files EXCEPT ![session_id] =
                   <<SaveChat(WithMessage(chat_files[session_id][1], msg, chat_now))>>]
             /\ chat_sent' = [chat_sent EXCEPT ![session_id] = Append(@, msg)]
             /\ chat_now' = chat_now + 1
             /\ chat_ret' = <<>>
    /\ UNCHANGED notChat

LoadChatHistory ==
    /\ \E session_id \in ChatIds :
          chat_ret' = <<[op |-> "load_chat_history", id |-> session_id,
                         raised |-> FALSE,
                         value |-> load_chat_history(chat_files, session_id)]>>
    /\ UNCHANGED <<chat_files, chat_sent, chat_now>>
    /\ UNCHANGED notChat

ListChatSessions ==
    /\ \E listdir \in ListDirs :
          chat_ret' = <<[op |-> "list_chat_sessions", id |-> "",
                         raised |-> FALSE,
                         value |-> list_chat_sessions(chat_files, listdir)]>>
    /\ UNCHANGED <<chat_files, chat_sent, chat_now>>
    /\ UNCHANGED notChat

DeleteChatSession ==
    /\ \E session_id \in ChatIds :
          /\ chat_files[session_id] # <<>>
          /\ chat_files' = [chat_files EXCEPT ![session_id] = <<>>]
          /\ chat_sent' = [chat_sent EXCEPT ![session_id] = <<>>]
    /\ chat_ret' = <<>>
    /\ UNCHANGED chat_now
    /\ UNCHANGED notChat

NextChat ==
    \/ CreateChatSession
    \/ SaveMessage
    \/ LoadChatHistory
    \/ ListChatSessions
    \/ DeleteChatSession

SpecChat == InitChat /\ [][NextChat]_chatVars

\* role and content of the messages of a history, in order
Passed(messages) ==
    [i \in DOMAIN messages |->
        [role |-> messages[i].role, content |-> messages[i].content]]

\* C24: load_chat_history(id) returns the messages passed to save_message
\* for that session, each once and in the order of the calls, whatever was
\* done to other sessions; list_chat_sessions returns every existing
\* session, by updated_at descending.
C24_HistoryAndListing ==
    /\ \A session_id \in ChatIds :
          Passed(load_chat_history(chat_files, session_id))
             = Passed(chat_sent[session_id])
    /\ \A listdir \in ListDirs :
          LET sessions == list_chat_sessions(chat_files, listdir)
          IN  /\ {sessions[i].id : i \in DOMAIN sessions}
                    = {id \in ChatIds : chat_files[id] # <<>>}
              /\ Len(sessions) = Cardinality({id \in ChatIds : chat_files[id] # <<>>})
              /\ \A i, j \in DOMAIN sessions :
                    i < j => sessions[i].updated_at >= sessions[j].updated_at
    /\ chat_ret # <<>> => ~chat_ret[1].raised

----------------------------------------------------------------------------
(* The steps of a session against the lifecycle its constructor documents  *)

\* coordinator.py line 92
Lifecycle == <<"INIT", "PLANNED", "STAGE1", "STAGE2", "STAGE3", "COMPLETE">>
LifecycleNo(stage) == CHOOSE i \in DOMAIN Lifecycle : Lifecycle[i] = stage

\* C25: a run_next_step call moves the stage exactly one step along
\* INIT -> PLANNED -> STAGE1 -> STAGE2 -> STAGE3 -> COMPLETE, never backward
\* and never over a step, and changes nothing on a COMPLETE session.
C25_StageFollowsLifecycle ==
    [][/\ state'.stage # state.stage =>
             LifecycleNo(state'.stage) = LifecycleNo(state.stage) + 1
       /\ state.stage = "COMPLETE" => state' = state]_vars

----------------------------------------------------------------------------
(* What each call is given, and the order in which results are recorded    *)

\* the texts that fill the placeholders of a context
TextsIn(context) == {context[i].text : i \in DOMAIN context}

\* the reply texts of the Stage-1 agents
Stage1Outputs == {TextOf(a) : a \in Stage1Agents}

C27_ResearchSplicedIntoCodeGen ==
    /\ (pc = "PLANNED" /\ "CodeGenAgent" \in Range(tasks)
           /\ Member("ResearchAgent", active_agents))
          => "ResearchAgent" \in Range(tasks)
    /\ (pc = "PLANNED" /\ "CodeGenAgent" \in Range(tasks)
           /\ first_done = "ResearchAgent"
           /\ pool["ResearchAgent"] = Done(OkResult(TextOf("ResearchAgent")))
           /\ pool["CodeGenAgent"].st = "done")
          => TextOf("ResearchAgent") \in TextsIn(ctx["CodeGenAgent"])

\* C28: the evaluator's context is made of the request, the current code,
\* the test text and the explanation text: the text of an ExplainAgent
\* result that exists is in it.
C28_EvaluatorSeesExplanation ==
    ctx["EvaluatorAgent"] # NoContext =>
       /\ UserPrompt \in TextsIn(ctx["EvaluatorAgent"])
       /\ FinalCode(state.results) \in TextsIn(ctx["EvaluatorAgent"])
       /\ GetText(state.results, "TestGenAgent", "") \in TextsIn(ctx["EvaluatorAgent"])
       /\ Has(state.results, "ExplainAgent") =>
             GetText(state.results, "ExplainAgent", "") \in TextsIn(ctx["EvaluatorAgent"])

\* C29: the results of a stage enter the results mapping in the order in
\* which the calls returned: the first entry a stage adds is that of the
\* call that returned first.
C29_ResultsInCompletionOrder ==
    [][(pc # "idle" /\ pc' = "idle" /\ Len(state'.results) > Len(state.results))
          => state'.results[Len(state.results) + 1].name = first_done]_vars

\* C30: results is append-only over a session started from INIT: a step
\* leaves every entry where it is and as it is, and the plan stored by the
\* INIT step is not modified afterwards.
C30_ResultsAppendOnlyPlanImmutable ==
    [][/\ Len(state'.results) >= Len(state.results)
       /\ \A i \in DOMAIN state.results : state'.results[i] = state.results[i]
       /\ state.stage # "INIT" => state'.plan = state.plan]_vars

\* a session that went through the three stages and recorded their results
C30_Witness ==
    /\ state.stage = "COMPLETE"
    /\ Len(state.results) >= 3
    /\ Has(state.results, "CodeGenAgent")
    /\ Has(state.results, "EvaluatorAgent")
    /\ state.plan.kind = "obj"

----------------------------------------------------------------------------
(* Who writes the session while calls are on the worker pool, and how      *)
(* often a call is made                                                    *)

\* some run_llm call of the session is on the pool and has not returned
InFlight ==
    \/ route_res.st = "running"
    \/ \E a \in Agents : pool[a].st = "running"

\* C31: results and logs have no concurrent writers: no step taken while a
\* gateway call is in flight writes results or logs; the coordinating
\* coroutine writes them before it dispatches and after the join.
C31_NoWriteWhileCallsInFlight ==
    [][InFlight => /\ state'.results = state.results
                   /\ state'.logs = state.logs]_vars

\* one call of a Stage-2 gather has returned while another is in flight,
\* with the log entries and the results of the earlier steps in the session
C31_Witness ==
    /\ pc = "STAGE1"
    /\ pool["SafetyAgent"].st = "done"
    /\ pool["TestGenAgent"].st = "running"
    /\ Has(state.results, "CodeGenAgent")
    /\ Len(state.logs) >= 3

\* C32: no retries at the gateway: in a session started from INIT the
\* router and each agent are called at most once, and a call that failed is
\* recorded and not made again.
C32_NoRetries ==
    /\ \A c \in CallNames : issued[c] <= 1
    /\ \A a \in Agents :
          (a \in failed /\ pool[a].st = "none") =>
             /\ issued[a] = 1
             /\ Has(state.results, a)
             /\ ~Get(state.results, a).ok

\* a session that completed after its code generation call failed
C32_Witness ==
    /\ state.stage = "COMPLETE"
    /\ "CodeGenAgent" \in failed
    /\ "Router" \notin failed
    /\ issued["CodeGenAgent"] = 1
    /\ Has(state.results, "CodeGenAgent")
    /\ ~Get(state.results, "CodeGenAgent").ok

----------------------------------------------------------------------------
(* The code text the later stages and the summary work on *)

\* the text that fills the code placeholder of a Stage-2 or evaluator context
CodeIn(context) == context[2].text

\* C33: the code handed to the EvaluatorAgent is the generated_code that
\* get_summary reports for the session (DocstringAgent text, else
\* CodeGenAgent text), and every Stage-2 agent was handed the CodeGenAgent
\* text.
C33_EvaluatorCodeIsSummaryCode ==
    /\ ctx["EvaluatorAgent"] # NoContext =>
          /\ CodeIn(ctx["EvaluatorAgent"]) = get_summary(state).generated_code
          /\ (rpc = "returned" /\ exc = "none") =>
                CodeIn(ctx["EvaluatorAgent"]) = ret.summary.generated_code
    /\ \A a \in Stage2Agents :
          ctx[a] # NoContext =>
             CodeIn(ctx[a]) = GetText(state.results, "CodeGenAgent", "")

\* run_plan returned the summary of a session whose evaluator was given the
\* documented code
C33_Witness ==
    /\ rpc = "returned"
    /\ exc = "none"
    /\ Has(state.results, "EvaluatorAgent")
    /\ GetText(state.results, "DocstringAgent", "") = TextOf("DocstringAgent")
    /\ GetText(state.results, "CodeGenAgent", "") = TextOf("CodeGenAgent")
    /\ ctx["TestGenAgent"] # NoContext

----------------------------------------------------------------------------
(* to_json and create_session as they treat the state dictionary itself:   *)
(* SpecAlias.  A reference names a dictionary: "self.state" is the one the  *)
(* running session holds (the variable state), "new" one that __init__      *)
(* built.                                                                  *)

\* the dictionary a reference names, as it is now
Deref(ref) == IF ref = "self.state" THEN state ELSE NewState

\* to_json, lines 104-108: "state" is self.state, the dictionary itself
ToJsonReference == [prompt |-> UserPrompt, state |-> "self.state"]

\* __init__, lines 88-97: `self.state = state` keeps the dictionary passed in
SessionStateReference(ref) == IF IsTruthy(Deref(ref)) THEN ref ELSE "new"

\* s.to_json() between two steps of the session
TakeSnapshot ==
    /\ rpc = "running"
    /\ pc = "idle"
    /\ snap = <<>>
    /\ snap' = <<ToJsonReference>>
    /\ snap_then' = <<state>>
    /\ UNCHANGED second
    /\ UNCHANGED <<vars, sandbox_runs, llmVars, resumeVars, sumVars,
                   runVars, memVars, chatVars, agVars, raceVars>>

\* create_session(snap["prompt"], snap["state"])
CreateSecondSession ==
    /\ snap # <<>>
    /\ second = "none"
    /\ second' = SessionStateReference(snap[1].state)
    /\ UNCHANGED <<snap, snap_then>>
    /\ UNCHANGED <<vars, sandbox_runs, llmVars, resumeVars, sumVars,
                   runVars, memVars, chatVars, agVars, raceVars>>

NextAlias == Next \/ TakeSnapshot \/ CreateSecondSession

SpecAlias == Init /\ [][NextAlias]_<<vars, aliasVars>>

\* C34: a snapshot taken with to_json(), and a second session created from
\* it, are independent of the running session: whatever steps the running
\* session takes afterwards, the snapshot is what it was when taken, and the
\* second session has the stage, results and logs it was created with.
C34_SnapshotIndependent ==
    /\ snap # <<>> => Deref(snap[1].state) = snap_then[1]
    /\ second # "none" =>
          /\ Deref(second).stage = snap_then[1].stage
          /\ Deref(second).results = snap_then[1].results
          /\ Deref(second).logs = snap_then[1].logs

----------------------------------------------------------------------------
(* The workflow loop's finalization, app.py lines 358-383, under SpecResume *)

\* C35: a submitted request gives exactly one assistant message: once the
\* workflow reached COMPLETE its result is saved once, and no rerun, reload
\* or restore from localStorage makes the loop save it again.
C35_FinalizedOnce == finalized <= 1

----------------------------------------------------------------------------
(* The temporary script file of run_python_code, under SpecRun *)

\* C36: once a run_python_code call has finished, by returning or by
\* raising, its temporary script file no longer exists, whatever the
\* outcome: exit, timeout, launch failure, failure while writing the code.
C36_TempFileRemoved ==
    run_pc \in {"returned", "raised"} => ~run_tmp

----------------------------------------------------------------------------
(* Two UI sessions on one memory directory: SpecRace.  app.py lines 114-116 *)
(* give every UI session its own MemoryStore on the same directory, and the *)
(* script runs of different UI sessions are different threads, so the       *)
(* load, open and dump of one call interleave with those of another.  Both  *)
(* sessions call put on one file, or save_message on one chat session.      *)

RaceOps == {"put", "save_message"}
RaceArgs == [key : MemKeys, value : {Str("build website"), Str("Python")}]

\* what the call writes into the document it loaded: data[key] = value for
\* put; for save_message the message appended to the list of messages, which
\* is the document followed here
Modify(op, data, args) ==
    IF op = "put" THEN Put(data, args.key, args.value)
    ELSE Append(data, [name |-> "user", res |-> args.value])

InitRace ==
    /\ FreshSession
    /\ sandbox_runs = 0
    /\ LLMIdle
    /\ ResumeIdle
    /\ SummaryIdle
    /\ RunIdle
    /\ MemIdle
    /\ ChatIdle
    /\ AgentIdle
    /\ AliasIdle
    /\ race_op \in RaceOps
    /\ race_args \in [UISessions -> RaceArgs]
    /\ race_pc = [u \in UISessions |-> "start"]
    /\ race_local = [u \in UISessions |-> <<>>]
    /\ race_file = EmptyFile

notRace == <<vars, sandbox_runs, llmVars, resumeVars, sumVars, runVars, memVars, chatVars,
             agVars, aliasVars>>

\* _load, lines 50-51 and 94; save_message subscripts chat_data["messages"]
\* at line 100, a KeyError on the {} that _load gives for an unparsable file
RaceLoad(u) ==
    /\ race_pc[u] = "start"
    /\ IF race_op = "save_message" /\ ~race_file.ok
       THEN /\ race_pc' = [race_pc EXCEPT ![u] = "raised"]
            /\ UNCHANGED race_local
       ELSE /\ race_pc' = [race_pc EXCEPT ![u] = "loaded"]
            /\ race_local' = [race_local EXCEPT ![u] = _load(race_file)]
    /\ UNCHANGED <<race_op, race_args, race_file>>
    /\ UNCHANGED notRace

\* _save, line 40: open(filepath, 'w') empties the file
RaceOpen(u) ==
    /\ race_pc[u] = "loaded"
    /\ race_pc' = [race_pc EXCEPT ![u] = "opened"]
    /\ race_file' = PartialFile
    /\ UNCHANGED <<race_op, race_args, race_local>>
    /\ UNCHANGED notRace

\* _save, line 41 and the close of line 40: the document is written from
\* the start of the file; over what another session wrote after this one
\* opened the file, the bytes that stay are this document or a mix of both
RaceDump(u) ==
    /\ race_pc[u] = "opened"
    /\ race_pc' = [race_pc EXCEPT ![u] = "done"]
    /\ \/ race_file' = _save(Modify(race_op, race_local[u], race_args[u]))
       \/ /\ race_file.ok
          /\ race_file' = PartialFile
    /\ UNCHANGED <<race_op, race_args, race_local>>
    /\ UNCHANGED notRace

NextRace == \E u \in UISessions : RaceLoad(u) \/ RaceOpen(u) \/ RaceDump(u)

SpecRace == InitRace /\ [][NextRace]_raceVars

\* the update of UI session u is in the file
UpdatePresent(u) ==
    IF race_op = "put"
    THEN /\ Has(race_file.data, race_args[u].key)
         /\ (\A w \in UISessions : race_args[w].key = race_args[u].key => w = u)
               => Get(race_file.data, race_args[u].key) = race_args[u].value
    ELSE \E i \in DOMAIN race_file.data :
            race_file.data[i].res = race_args[u].value

\* C37: no update is lost under interleaving: when the two calls have
\* finished, however their load, open and dump steps interleaved, the file
\* parses and holds both updates (for save_message: both messages).
C37_NoLostUpdate ==
    (\A u \in UISessions : race_pc[u] \in {"done", "raised"}) =>
       /\ \A u \in UISessions : race_pc[u] = "done"
       /\ race_file.ok
       /\ \A u \in UISessions : UpdatePresent(u)
       /\ race_op = "save_message" => Len(race_file.data) = 2

====
